---- MODULE Spec2Model ----
(***************************************************************************)
(* Model of tap_s3_csv/conversion.py: schema inference over a sample       *)
(* batch.  Text is modelled as sequences of one-character strings so that  *)
(* len(str(x)), str.replace, str.lower, '/' in cell, min() and the numeric *)
(* and date parsers are computed, not assumed.                             *)
(***************************************************************************)
EXTENDS Integers, Sequences, FiniteSets, TLC

VARIABLES samples, string_max_length, pc, col_types, lengths, schema,
          date_format_map, datatype, length, fragment, earlier

vars == <<samples, string_max_length, pc, col_types, lengths, schema,
          date_format_map, datatype, length, fragment, earlier>>

(***************************************************************************)
(* Bounds of the model.                                                    *)
(***************************************************************************)
\* rows in a sample batch
MaxRows == 2
\* largest length handed to datatype_schema on its own
MaxLength == 6

(***************************************************************************)
(* Characters and text.                                                    *)
(***************************************************************************)
Digits == <<"0", "1", "2", "3", "4", "5", "6", "7", "8", "9">>
UpperCase == <<"A", "B", "C", "D", "E", "F", "G", "H", "I", "J", "K", "L", "M",
               "N", "O", "P", "Q", "R", "S", "T", "U", "V", "W", "X", "Y", "Z">>
LowerCase == <<"a", "b", "c", "d", "e", "f", "g", "h", "i", "j", "k", "l", "m",
               "n", "o", "p", "q", "r", "s", "t", "u", "v", "w", "x", "y", "z">>
\* the characters of the model in code-point order (what Python compares by)
CodePoints == <<"'", "+", ",", "-", ".", "/">> \o Digits \o <<"<", ">">>
              \o UpperCase \o <<"[", "]">> \o LowerCase

IndexOf(seq, c) == CHOOSE i \in 1..Len(seq) : seq[i] = c
InSeq(seq, c) == \E i \in 1..Len(seq) : seq[i] = c
Ord(c) == IndexOf(CodePoints, c)
IsDigit(c) == InSeq(Digits, c)
DigitVal(c) == IndexOf(Digits, c) - 1

\* str.lower() on one character, and on a text
LowerChar(c) == IF InSeq(UpperCase, c) THEN LowerCase[IndexOf(UpperCase, c)] ELSE c
Lower(s) == [i \in 1..Len(s) |-> LowerChar(s[i])]

\* sub in text ('/' in cell)
Contains(s, c) == InSeq(s, c)

\* text.replace(c, '')
Remove(s, c) == SelectSeq(s, LAMBDA x : x # c)

\* Python's str < str: by code point, a proper prefix is smaller
RECURSIVE StrLess(_, _)
StrLess(s, t) ==
    IF t = <<>> THEN FALSE
    ELSE IF s = <<>> THEN TRUE
    ELSE IF s[1] # t[1] THEN Ord(s[1]) < Ord(t[1])
    ELSE StrLess(Tail(s), Tail(t))

\* int(text) of a run of digits
RECURSIVE ToNat(_)
ToNat(s) == IF s = <<>> THEN 0
            ELSE 10 * ToNat(SubSeq(s, 1, Len(s) - 1)) + DigitVal(s[Len(s)])

AllDigits(s) == \A i \in 1..Len(s) : IsDigit(s[i])

\* text.split(sep)
RECURSIVE Split(_, _)
Split(s, sep) ==
    IF ~InSeq(s, sep) THEN <<s>>
    ELSE LET i == CHOOSE j \in 1..Len(s) :
                      s[j] = sep /\ \A k \in 1..(j - 1) : s[k] # sep
         IN <<SubSeq(s, 1, i - 1)>> \o Split(SubSeq(s, i + 1, Len(s)), sep)

NullMarker == <<"<", "n", "u", "l", "l", ">">>

\* re.sub('(?i)<null>', '', text)
RECURSIVE StripNullMarker(_)
StripNullMarker(s) ==
    IF Len(s) < Len(NullMarker) THEN s
    ELSE IF Lower(SubSeq(s, 1, Len(NullMarker))) = NullMarker
         THEN StripNullMarker(SubSeq(s, Len(NullMarker) + 1, Len(s)))
         ELSE <<s[1]>> \o StripNullMarker(Tail(s))

(***************************************************************************)
(* Cells.  A cell is [k, s]: its Python kind and the text str(cell) gives. *)
(* Kinds: "str", "None", "nan" (a float NaN), "bool", "int", "float",      *)
(* "list".                                                                 *)
(***************************************************************************)
Str(t) == [k |-> "str", s |-> t]
None == [k |-> "None", s |-> <<"N", "o", "n", "e">>]
NaN == [k |-> "nan", s |-> <<"n", "a", "n">>]
PyTrue == [k |-> "bool", s |-> <<"T", "r", "u", "e">>]
PyFalse == [k |-> "bool", s |-> <<"F", "a", "l", "s", "e">>]
PyInt(t) == [k |-> "int", s |-> t]
PyFloat(t) == [k |-> "float", s |-> t]
EmptyList == [k |-> "list", s |-> <<"[", "]">>]
ExtraList == [k |-> "list", s |-> <<"[", "'", "x", "'", "]">>]

\* str(x)
PyStr(x) == x.s

\* the text cells of the sample batches
Blank == Str(<<>>)
TextCells ==
    { Blank,
      Str(<<"<", "N", "U", "L", "L", ">">>),
      Str(<<"t", "r", "u", "e">>),
      Str(<<"F", "A", "L", "S", "E">>),
      Str(<<"a", "b", "c">>),
      Str(<<"1", "2">>),
      Str(<<"1", ",", "2", "3", "4", ".", "5">>),
      Str(<<"2", "0", "2", "2", "-", "0", "1", "-", "0", "2">>),
      Str(<<"2", "0", "2", "1", "/", "1", "2", "/", "3", "0">>),
      Str(<<"0", "1", "-", "0", "2", "-", "2", "0", "2", "2">>),
      Str(<<"1", "3", "-", "0", "2", "-", "2", "0", "2", "2">>),
      Str(<<"0", "1", "/", "0", "2", "/", "2", "0", "2", "2">>),
      Str(<<"3", "1", "/", "1", "2", "/", "2", "0", "2", "1">>) }

\* every cell a reader hands over: text, missing, booleans, numbers, and the
\* list csv.DictReader makes of the fields beyond the header
Cells == TextCells \cup { None, PyTrue, PyFalse, PyInt(<<"5">>),
                          PyFloat(<<"1", ".", "5">>), EmptyList, ExtraList }

\* the cell the second column holds, the same in every row of a batch
CompanionCells == { Str(<<"0", "1", "-", "0", "2", "-", "2", "0", "2", "2">>),
                    None }

ColumnNames == <<"a", "b">>

RECURSIVE SeqsUpTo(_, _)
SeqsUpTo(S, n) ==
    IF n = 0 THEN { <<>> }
    ELSE LET shorter == SeqsUpTo(S, n - 1)
         IN shorter \cup { Append(q, x) : q \in { r \in shorter : Len(r) = n - 1 },
                                          x \in S }

\* the sample batches of up to n rows, each row a map column name -> cell
BatchesOf(cells, n) == { [i \in 1..Len(col) |-> [a |-> col[i], b |-> y]] :
                             col \in SeqsUpTo(cells, n), y \in CompanionCells }

Batches == BatchesOf(Cells, MaxRows)

(***************************************************************************)
(* Maps (Python dicts) as functions on their key sets.                     *)
(***************************************************************************)
EmptyMap == [c \in {} |-> <<>>]
Put(m, key, v) == [c \in DOMAIN m \cup {key} |-> IF c = key THEN v ELSE m[c]]

(***************************************************************************)
(* pd.DataFrame(samples): one column per key, with the dtype pandas gives. *)
(***************************************************************************)
Kinds(values) == { values[i].k : i \in 1..Len(values) }

DtypeOf(values) ==
    IF Kinds(values) = {"int"} THEN "int64"
    ELSE IF Kinds(values) \subseteq {"int", "float", "None", "nan"}
            /\ Kinds(values) \cap {"int", "float"} # {} THEN "float64"
    ELSE IF Kinds(values) = {"bool"} THEN "bool"
    ELSE "object"

\* what a cell becomes in a float64 column
AsFloat(x) ==
    IF x.k = "int" THEN PyFloat(x.s \o <<".", "0">>)
    ELSE IF x.k = "None" THEN NaN
    ELSE x

DataFrameColumn(batch, name) ==
    LET raw == [i \in 1..Len(batch) |-> batch[i][name]]
        dtype == DtypeOf(raw)
    IN [name |-> name, dtype |-> dtype,
        values |-> IF dtype = "float64"
                   THEN [i \in 1..Len(raw) |-> AsFloat(raw[i])] ELSE raw]

IsNull(x) == x.k \in {"None", "nan"}

(***************************************************************************)
(* pd.to_numeric on one text: '' is NaN, a decimal number parses, anything *)
(* else raises.                                                            *)
(***************************************************************************)
Unsigned(s) == IF s # <<>> /\ s[1] \in {"+", "-"} THEN Tail(s) ELSE s

IsNumericText(s) ==
    LET parts == Split(Unsigned(s), ".")
    IN /\ Len(parts) \in {1, 2}
       /\ \A i \in 1..Len(parts) : AllDigits(parts[i])
       /\ \E i \in 1..Len(parts) : parts[i] # <<>>

IsIntegerText(s) == Unsigned(s) # <<>> /\ AllDigits(Unsigned(s))

\* pd.to_numeric(tmpCol): [raised, dtype, notna]
ToNumeric(texts) ==
    IF \E i \in 1..Len(texts) : texts[i] # <<>> /\ ~IsNumericText(texts[i])
    THEN [raised |-> TRUE, dtype |-> "object", notna |-> 0]
    ELSE [raised |-> FALSE,
          dtype |-> IF \A i \in 1..Len(texts) : IsIntegerText(texts[i])
                    THEN "int64" ELSE "float64",
          notna |-> Cardinality({ i \in 1..Len(texts) : texts[i] # <<>> })]

(***************************************************************************)
(* infer_number: [raised, value].  x.replace(',', '') runs outside the try *)
(* block, so a cell that is no str raises AttributeError to the caller.    *)
(***************************************************************************)
infer_number(column) ==
    IF \E i \in 1..Len(column.values) : column.values[i].k # "str"
    THEN [raised |-> TRUE, value |-> FALSE]
    ELSE LET tmpCol == [i \in 1..Len(column.values) |->
                            Remove(column.values[i].s, ",")]
             tmpResult == ToNumeric(tmpCol)
         IN IF tmpResult.raised \/ tmpResult.notna = 0
            THEN [raised |-> FALSE, value |-> FALSE]
            ELSE [raised |-> FALSE,
                  value |-> tmpResult.dtype \in {"float64", "int64"}]

(***************************************************************************)
(* pd.to_datetime(column, format=...) on one text.                         *)
(***************************************************************************)
IsLeap(y) == (y % 4 = 0 /\ y % 100 # 0) \/ y % 400 = 0

DaysIn(y, m) ==
    IF m = 2 THEN (IF IsLeap(y) THEN 29 ELSE 28)
    ELSE IF m \in {4, 6, 9, 11} THEN 30 ELSE 31

IsYearField(s) == Len(s) = 4 /\ AllDigits(s)
IsShortField(s) == Len(s) \in {1, 2} /\ AllDigits(s)

ValidDate(ys, ms, ds) ==
    /\ IsYearField(ys) /\ IsShortField(ms) /\ IsShortField(ds)
    /\ ToNat(ms) \in 1..12
    /\ ToNat(ds) >= 1 /\ ToNat(ds) <= DaysIn(ToNat(ys), ToNat(ms))

\* format '%Y-%m-%d': pandas takes '-' and '/' alike here (lines 66-68)
ParsesYearFirst(s) ==
    \E sep \in {"-", "/"} :
        LET f == Split(s, sep)
        IN Len(f) = 3 /\ ValidDate(f[1], f[2], f[3])

\* formats '%m-%d-%Y', '%d-%m-%Y', '%m/%d/%Y', '%d/%m/%Y'
ParsesYearLast(s, sep, monthFirst) ==
    LET f == Split(s, sep)
    IN Len(f) = 3 /\ (IF monthFirst THEN ValidDate(f[3], f[1], f[2])
                                    ELSE ValidDate(f[3], f[2], f[1]))

\* the four formats tried after the year-first one, in the code's order
LaterFormats ==
    << [label |-> "MM-DD-YYYY", sep |-> "-", monthFirst |-> TRUE],
       [label |-> "DD-MM-YYYY", sep |-> "-", monthFirst |-> FALSE],
       [label |-> "MM/DD/YYYY", sep |-> "/", monthFirst |-> TRUE],
       [label |-> "DD/MM/YYYY", sep |-> "/", monthFirst |-> FALSE] >>

\* bool(x), as column.astype(bool) computes it
Truthy(x) ==
    IF x.k = "str" THEN x.s # <<>>
    ELSE IF x.k = "bool" THEN x = PyTrue
    ELSE IF x.k \in {"int", "float"} THEN ~(\A i \in 1..Len(x.s) : x.s[i] \in {"0", "."})
    ELSE IF x.k = "list" THEN x # EmptyList
    ELSE x.k = "nan"

AllStr(values) == \A i \in 1..Len(values) : values[i].k = "str"

\* the first cell of the column, whatever its rank
FirstText(values) == values[1].s

\* cell = column.min() (line 70) on a column of texts
MinText(values) ==
    values[CHOOSE i \in 1..Len(values) :
               \A j \in 1..Len(values) : ~StrLess(values[j].s, values[i].s)].s

\* does pd.to_datetime(column, format) succeed for the whole column
WholeColumnParses(values, fmt) ==
    \A i \in 1..Len(values) :
        values[i].k = "str" /\ ParsesYearLast(values[i].s, fmt.sep, fmt.monthFirst)

\* the try blocks of lines 77-103, from format n on; the first format the
\* whole column parses under records its label
RECURSIVE TryLaterFormats(_, _, _, _)
TryLaterFormats(values, name, dateFormatMap, n) ==
    IF n > Len(LaterFormats) THEN dateFormatMap
    ELSE IF WholeColumnParses(values, LaterFormats[n])
         THEN Put(dateFormatMap, name, LaterFormats[n].label)
         ELSE TryLaterFormats(values, name, dateFormatMap, n + 1)

(***************************************************************************)
(* infer_datetime_and_format: [value, dateFormatMap]                       *)
(***************************************************************************)
\* as infer_datetime_and_format, with return True where lines 80, 87, 94 and
\* 101 return False
infer_datetime_and_format_confirming(column, dateFormatMap) ==
    LET values == SelectSeq(column.values, Truthy)
        later == TryLaterFormats(values, column.name, dateFormatMap, 1)
    IN IF /\ values # <<>>
          /\ AllStr(values)
          /\ \A i \in 1..Len(values) : ParsesYearFirst(values[i].s)
       THEN [value |-> TRUE,
             dateFormatMap |->
                 Put(dateFormatMap, column.name,
                     IF Contains(MinText(values), "/")
                     THEN "YYYY/MM/DD" ELSE "YYYY-MM-DD")]
       ELSE [value |-> later # dateFormatMap, dateFormatMap |-> later]

\* line 63 drops the falsy cells; lines 65-75 succeed when column.min() and
\* the year-first parse of every cell do; lines 77-105 otherwise
infer_datetime_and_format(column, dateFormatMap) ==
    LET values == SelectSeq(column.values, Truthy)
    IN IF /\ values # <<>>
          /\ AllStr(values)
          /\ \A i \in 1..Len(values) : ParsesYearFirst(values[i].s)
       THEN [value |-> TRUE,
             dateFormatMap |->
                 Put(dateFormatMap, column.name,
                     IF Contains(MinText(values), "/")
                     THEN "YYYY/MM/DD" ELSE "YYYY-MM-DD")]
       ELSE [value |-> FALSE,
             dateFormatMap |->
                 TryLaterFormats(values, column.name, dateFormatMap, 1)]

(***************************************************************************)
(* infer_datetime: [value, dateFormatMap]                                  *)
(***************************************************************************)
StripMarkerCell(x) == IF x.k = "str" THEN Str(StripNullMarker(x.s)) ELSE x

infer_datetime(column, dateFormatMap) ==
    LET replaced == [i \in 1..Len(column.values) |->
                         StripMarkerCell(column.values[i])]
        tmpCol == SelectSeq(replaced, LAMBDA x : x # Blank /\ ~IsNull(x))
    IN IF tmpCol = <<>>
       THEN [value |-> FALSE, dateFormatMap |-> dateFormatMap]
       ELSE infer_datetime_and_format(
                [name |-> column.name, dtype |-> column.dtype, values |-> tmpCol],
                dateFormatMap)

(***************************************************************************)
(* is_boolean_value, infer_boolean                                         *)
(***************************************************************************)
is_boolean_value(value) ==
    \/ value.k = "str" /\ Lower(value.s) \in { <<"t", "r", "u", "e">>,
                                               <<"f", "a", "l", "s", "e">> }
    \/ value.k = "bool"

infer_boolean(column) ==
    LET unique_values == { IF column.values[i] = Blank THEN NaN
                           ELSE column.values[i] : i \in 1..Len(column.values) }
    IN IF Cardinality(unique_values) = 0 THEN FALSE
       ELSE IF Cardinality(unique_values) = 1
               /\ \A v \in unique_values : IsNull(v) THEN FALSE
       ELSE \A v \in unique_values : is_boolean_value(v) \/ IsNull(v)

(***************************************************************************)
(* infer_column: [raised, tag, dateFormatMap, lengths].  tag "None" is the *)
(* function falling off its end (no return statement is reached).          *)
(***************************************************************************)
Max(S) == CHOOSE n \in S : \A m \in S : m <= n

\* column.apply(lambda x: len(str(x))).max()
MaxStrLen(values) == Max({ Len(PyStr(values[i])) : i \in 1..Len(values) })

\* column.apply(lambda x: isinstance(x, list)).any()
HasListCell(values) == \E i \in 1..Len(values) : values[i].k = "list"

NumericDtypes == {"int32", "int64", "float32"}

infer_column(column, dateFormatMap, lens) ==
    IF \A i \in 1..Len(column.values) : IsNull(column.values[i])
    THEN [raised |-> FALSE, tag |-> "string", dateFormatMap |-> dateFormatMap,
          lengths |-> Put(lens, column.name, 0)]
    ELSE
      LET lens2 == Put(lens, column.name, MaxStrLen(column.values))
          Result(tag, dfm) == [raised |-> FALSE, tag |-> tag,
                               dateFormatMap |-> dfm, lengths |-> lens2]
      IN IF column.dtype = "object"
         THEN IF HasListCell(column.values) THEN Result("list", dateFormatMap)
              ELSE LET num == infer_number(column)
                       dt == infer_datetime(column, dateFormatMap)
                   IN IF num.raised
                      THEN [raised |-> TRUE, tag |-> "None",
                            dateFormatMap |-> dateFormatMap, lengths |-> lens2]
                      ELSE IF num.value THEN Result("number", dateFormatMap)
                      ELSE IF dt.value THEN Result("date-time", dt.dateFormatMap)
                      ELSE IF infer_boolean(column)
                           THEN Result("boolean", dt.dateFormatMap)
                      ELSE Result("string", dt.dateFormatMap)
         ELSE IF column.dtype \in NumericDtypes
              THEN Result("number", dateFormatMap)
         ELSE Result("None", dateFormatMap)

(***************************************************************************)
(* datatype_schema                                                         *)
(***************************************************************************)
WithMaxLength(frag, len, flag) ==
    IF flag THEN [key \in DOMAIN frag \cup {"maxLength"} |->
                      IF key = "maxLength" THEN len ELSE frag[key]]
    ELSE frag

\* as datatype_schema, with line 179 outside the test of line 178
datatype_schema_always_length(dtype, len, flag) ==
    IF dtype = "date-time"
    THEN WithMaxLength([type |-> <<"null", "string">>, format |-> "date-time"],
                       len, flag)
    ELSE IF dtype = "dict"
    THEN [anyOf |-> << [type |-> "object", properties |-> EmptyMap],
                       WithMaxLength([type |-> <<"null", "string">>], len, flag) >>]
    ELSE WithMaxLength([type |-> IF dtype # "string"
                                 THEN <<"null", dtype, "string">>
                                 ELSE <<"null", dtype>>], len, TRUE)

datatype_schema(dtype, len, flag) ==
    IF dtype = "date-time"
    THEN WithMaxLength([type |-> <<"null", "string">>, format |-> "date-time"],
                       len, flag)
    ELSE IF dtype = "dict"
    THEN [anyOf |-> << [type |-> "object", properties |-> EmptyMap],
                       WithMaxLength([type |-> <<"null", "string">>], len, flag) >>]
    ELSE WithMaxLength([type |-> IF dtype # "string"
                                 THEN <<"null", dtype, "string">>
                                 ELSE <<"null", dtype>>], len, flag)

(***************************************************************************)
(* generate_schema: [raised, col_types, lengths, schema, date_format_map]  *)
(***************************************************************************)
\* df.columns
DataFrameColumns(batch) == IF batch = <<>> THEN <<>> ELSE ColumnNames

\* the map as the previous call left it
StaleDateFormatMap == date_format_map

\* date_format_map = {} (line 143): a map of this invocation alone
NewDateFormatMap == EmptyMap

\* lines 145-146: infer each column in turn, stopping where one raises
RECURSIVE InferColumns(_, _, _)
InferColumns(batch, names, acc) ==
    IF names = <<>> \/ acc.raised THEN acc
    ELSE LET got == infer_column(DataFrameColumn(batch, Head(names)),
                                 acc.date_format_map, acc.lengths)
         IN InferColumns(batch, Tail(names),
                [raised |-> got.raised,
                 col_types |-> IF got.raised THEN acc.col_types
                               ELSE Put(acc.col_types, Head(names), got.tag),
                 date_format_map |-> got.dateFormatMap,
                 lengths |-> got.lengths])

\* every column emitted, list columns too
KeepsEveryColumn(tag) == TRUE

\* if datatype != 'list' (line 151)
KeepsColumn(tag) == tag # "list"

generate_schema(batch, flag) ==
    LET inferred == InferColumns(batch, DataFrameColumns(batch),
                        [raised |-> FALSE, col_types |-> EmptyMap,
                         date_format_map |-> NewDateFormatMap,
                         lengths |-> EmptyMap])
        kept == { c \in DOMAIN inferred.col_types :
                      KeepsColumn(inferred.col_types[c]) }
    IN [raised |-> inferred.raised,
        col_types |-> inferred.col_types,
        lengths |-> inferred.lengths,
        date_format_map |-> inferred.date_format_map,
        schema |-> IF inferred.raised THEN EmptyMap
                   ELSE [c \in kept |->
                            datatype_schema(inferred.col_types[c],
                                            inferred.lengths[c], flag)]]

(***************************************************************************)
(* The state machine.  pc: "start" (a call is about to be made),           *)
(* "returned", "raised"; "emit"/"emitted" for datatype_schema on its own.  *)
(***************************************************************************)
NoFragment == EmptyMap
NoCall == [set |-> FALSE, again |-> FALSE, samples |-> <<>>, flag |-> FALSE,
           pc |-> "start", schema |-> EmptyMap, date_format_map |-> EmptyMap]

Init ==
    /\ samples \in Batches
    /\ string_max_length \in BOOLEAN
    /\ pc = "start"
    /\ col_types = EmptyMap
    /\ lengths = EmptyMap
    /\ schema = EmptyMap
    /\ date_format_map = EmptyMap
    /\ datatype = "string"
    /\ length = 0
    /\ fragment = NoFragment
    /\ earlier = NoCall

\* one whole call generate_schema(samples, table_spec, string_max_length)
GenerateSchema ==
    /\ pc = "start"
    /\ \E r \in {generate_schema(samples, string_max_length)} :
          /\ pc' = IF r.raised THEN "raised" ELSE "returned"
          /\ col_types' = r.col_types
          /\ lengths' = r.lengths
          /\ schema' = r.schema
          /\ date_format_map' = r.date_format_map
    /\ UNCHANGED <<samples, string_max_length, datatype, length, fragment, earlier>>

Next == GenerateSchema

Spec == Init /\ [][Next]_vars

(***************************************************************************)
(* datatype_schema called on its own.                                      *)
(***************************************************************************)
Datatypes == {"number", "boolean", "string", "date-time", "dict"}

InitEmit ==
    /\ samples = <<>>
    /\ string_max_length \in BOOLEAN
    /\ pc = "emit"
    /\ col_types = EmptyMap
    /\ lengths = EmptyMap
    /\ schema = EmptyMap
    /\ date_format_map = EmptyMap
    /\ datatype \in Datatypes
    /\ length \in 0..MaxLength
    /\ fragment = NoFragment
    /\ earlier = NoCall

DatatypeSchema ==
    /\ pc = "emit"
    /\ fragment' = datatype_schema(datatype, length, string_max_length)
    /\ pc' = "emitted"
    /\ UNCHANGED <<samples, string_max_length, col_types, lengths, schema,
                   date_format_map, datatype, length, earlier>>

NextEmit == DatatypeSchema

SpecEmit == InitEmit /\ [][NextEmit]_vars

(***************************************************************************)
(* generate_schema called again and again, by one caller, on any batches.  *)
(* earlier holds one past call and what it gave, for comparison.           *)
(***************************************************************************)
SingleRowBatches ==
    BatchesOf({ Blank, None, EmptyList, PyFloat(<<"1", ".", "5">>),
                Str(<<"t", "r", "u", "e">>),
                Str(<<"a", "b", "c">>),
                Str(<<"1", "2">>),
                Str(<<"2", "0", "2", "2", "-", "0", "1", "-", "0", "2">>),
                Str(<<"0", "1", "-", "0", "2", "-", "2", "0", "2", "2">>) }, 1)

InitTwice ==
    /\ samples \in SingleRowBatches
    /\ string_max_length \in BOOLEAN
    /\ pc = "start"
    /\ col_types = EmptyMap
    /\ lengths = EmptyMap
    /\ schema = EmptyMap
    /\ date_format_map = EmptyMap
    /\ datatype = "string"
    /\ length = 0
    /\ fragment = NoFragment
    /\ earlier = NoCall

\* the next call of the same process, on a batch of the caller's choice
CallAgain(batch, flag) ==
    /\ pc \in {"returned", "raised"}
    /\ samples' = batch
    /\ string_max_length' = flag
    /\ \E r \in {generate_schema(batch, flag)} :
          /\ pc' = IF r.raised THEN "raised" ELSE "returned"
          /\ col_types' = r.col_types
          /\ lengths' = r.lengths
          /\ schema' = r.schema
          /\ date_format_map' = r.date_format_map
    /\ earlier' = [earlier EXCEPT !.again = earlier.set]
    /\ UNCHANGED <<datatype, length, fragment>>

\* keep the call just made
Remember ==
    /\ pc \in {"returned", "raised"}
    /\ ~earlier.set
    /\ earlier' = [set |-> TRUE, again |-> FALSE, samples |-> samples,
                   flag |-> string_max_length, pc |-> pc, schema |-> schema,
                   date_format_map |-> date_format_map]
    /\ UNCHANGED <<samples, string_max_length, pc, col_types, lengths, schema,
                   date_format_map, datatype, length, fragment>>

NextTwice ==
    \/ GenerateSchema
    \/ \E batch \in SingleRowBatches, flag \in BOOLEAN : CallAgain(batch, flag)
    \/ Remember

SpecTwice == InitTwice /\ [][NextTwice]_vars

(***************************************************************************)
(* What the properties speak of.                                           *)
(***************************************************************************)
Done == pc \in {"returned", "raised"}
BatchColumns == { ColumnNames[i] : i \in 1..Len(DataFrameColumns(samples)) }
Column(c) == DataFrameColumn(samples, c)
Cell(c, i) == samples[i][c]
RowNumbers == 1..Len(samples)
AllNull(c) == \A i \in RowNumbers : IsNull(Column(c).values[i])
ListValued(c) == \E i \in RowNumbers : Cell(c, i).k = "list"
Textual(c) == Column(c).dtype = "object"
OnlyText(c) == \A i \in RowNumbers : Cell(c, i).k = "str"
Tags == {"number", "date-time", "boolean", "string", "list"}

\* the texts left of a column of texts once <NULL> markers and empty
\* strings are dropped
Remaining(c) ==
    SelectSeq([i \in RowNumbers |-> StripNullMarker(Cell(c, i).s)],
              LAMBDA s : s # <<>>)
WholeParses(texts, sep, monthFirst) ==
    \A i \in 1..Len(texts) : ParsesYearLast(texts[i], sep, monthFirst)
WholeParsesYearFirst(texts) == \A i \in 1..Len(texts) : ParsesYearFirst(texts[i])
\* the label of the first of the four later formats the whole column parses
\* under, "" when there is none
FirstLaterLabel(texts) ==
    IF WholeParses(texts, "-", TRUE) THEN "MM-DD-YYYY"
    ELSE IF WholeParses(texts, "-", FALSE) THEN "DD-MM-YYYY"
    ELSE IF WholeParses(texts, "/", TRUE) THEN "MM/DD/YYYY"
    ELSE IF WholeParses(texts, "/", FALSE) THEN "DD/MM/YYYY"
    ELSE ""
\* the smallest text of a non-empty sequence of texts
Smallest(texts) ==
    CHOOSE m \in { texts[i] : i \in 1..Len(texts) } :
        \A i \in 1..Len(texts) : ~StrLess(texts[i], m)
\* the verdicts of the three checks as the rules of infer_column use them
NumericPasses(c) == infer_number(Column(c)).value
DatetimePasses(c) == infer_datetime(Column(c), EmptyMap).value
BooleanPasses(c) == infer_boolean(Column(c))
FirstMatch(c) ==
    IF NumericPasses(c) THEN "number"
    ELSE IF DatetimePasses(c) THEN "date-time"
    ELSE IF BooleanPasses(c) THEN "boolean"
    ELSE "string"

(***************************************************************************)
(* The claims.                                                             *)
(***************************************************************************)

C2_NeverRaises == pc # "raised"

\* C3: a column with a list-valued cell in any row is classified list and
\* is a key of neither the schema nor the Date Format Map, whatever the other
\* rows hold.
C3_ListColumnExcluded ==
    pc = "returned" =>
        \A c \in BatchColumns :
            ListValued(c) => /\ col_types[c] = "list"
                             /\ c \notin DOMAIN schema
                             /\ c \notin DOMAIN date_format_map

C3_Witness ==
    /\ pc = "returned"
    /\ ListValued("a")
    /\ \E i \in RowNumbers : Cell("a", i).k = "str" /\ ParsesYearFirst(Cell("a", i).s)
    /\ "b" \in DOMAIN schema

\* C4: infer_column returns exactly one tag of {number, date-time, boolean,
\* string, list} for every column, and number for every not-all-null column
\* of a numeric kind (int64, float64, ...).
C4_OneTagAndNumericIsNumber ==
    pc = "returned" =>
        \A c \in BatchColumns :
            /\ col_types[c] \in Tags
            /\ (~AllNull(c) /\ Column(c).dtype \in {"int64", "float64"})
                   => col_types[c] = "number"

\* C5: every column of the batch is a key of the Lengths Map, with 0 for an
\* all-null column and otherwise the largest len(str(v)) over the non-null
\* values alone.
C5_LengthsOverNonNull ==
    pc = "returned" =>
        \A c \in BatchColumns :
            /\ c \in DOMAIN lengths
            /\ lengths[c] =
                   IF AllNull(c) THEN 0
                   ELSE Max({ Len(PyStr(Column(c).values[i])) :
                                  i \in { j \in RowNumbers :
                                              ~IsNull(Column(c).values[j]) } })

\* C6: the rules apply in a fixed order and the first match wins: an
\* all-null column is string with length 0; a textual column with no list
\* cell is number if the Numeric Check passes, else date-time if the
\* Datetime Check passes, else boolean if the Boolean Check passes, else
\* string.
C6_FirstMatchWins ==
    Done =>
        \A c \in BatchColumns :
            /\ AllNull(c) =>
                   c \in DOMAIN col_types /\ col_types[c] = "string" /\ lengths[c] = 0
            /\ (~AllNull(c) /\ Textual(c) /\ ~ListValued(c)) =>
                   c \in DOMAIN col_types /\ col_types[c] = FirstMatch(c)

\* C7: for number, boolean and string the fragment's type is [null, datatype]
\* with string appended exactly when datatype is not string; for date-time
\* it is [null, string] with format date-time; maxLength is present, and
\* equal to length, if and only if the flag is true.
C7_Fragment ==
    (pc = "emitted" /\ datatype # "dict") =>
        /\ fragment.type =
               IF datatype = "date-time" THEN <<"null", "string">>
               ELSE IF datatype = "string" THEN <<"null", "string">>
               ELSE <<"null", datatype, "string">>
        /\ ("format" \in DOMAIN fragment) <=> (datatype = "date-time")
        /\ datatype = "date-time" => fragment.format = "date-time"
        /\ ("maxLength" \in DOMAIN fragment) <=> string_max_length
        /\ string_max_length => fragment.maxLength = length

C7_Witness ==
    /\ pc = "emitted"
    /\ datatype = "number"
    /\ length = 5
    /\ string_max_length
    /\ fragment = [type |-> <<"null", "number", "string">>, maxLength |-> 5]

\* C8: a call on the batch and flag of an earlier call gives what that call
\* gave (returns or raises alike, the same schema, the same Date Format Map),
\* whatever calls were made in between.
C8_SameInputSameOutput ==
    (Done /\ earlier.set /\ earlier.samples = samples
          /\ earlier.flag = string_max_length) =>
        /\ earlier.pc = pc
        /\ pc = "returned" => /\ earlier.schema = schema
                              /\ earlier.date_format_map = date_format_map

C8_Witness ==
    /\ pc = "returned"
    /\ earlier.set /\ earlier.again
    /\ earlier.samples = samples
    /\ earlier.flag = string_max_length
    /\ "a" \in DOMAIN col_types
    /\ col_types["a"] = "string"
    /\ date_format_map = EmptyMap
    /\ earlier.date_format_map = EmptyMap

\* C9: when the year-first format fails and the whole remaining column
\* parses under one of MM-DD-YYYY, DD-MM-YYYY, MM/DD/YYYY, DD/MM/YYYY, the
\* label of the first that parses is recorded under the column name and the
\* column is classified boolean or string, never date-time; when no format
\* parses, nothing is recorded.
C9_LaterFormatsRecordOnly ==
    pc = "returned" =>
        \A c \in BatchColumns :
            (OnlyText(c) /\ ~NumericPasses(c) /\ Remaining(c) # <<>>
                 /\ ~WholeParsesYearFirst(Remaining(c))) =>
                IF FirstLaterLabel(Remaining(c)) # ""
                THEN /\ c \in DOMAIN date_format_map
                     /\ date_format_map[c] = FirstLaterLabel(Remaining(c))
                     /\ col_types[c] \in {"boolean", "string"}
                ELSE c \notin DOMAIN date_format_map

C9_Witness ==
    /\ pc = "returned"
    /\ Len(samples) = 2
    /\ Cell("a", 1) # Cell("a", 2)
    /\ "a" \in DOMAIN date_format_map
    /\ date_format_map["a"] = "DD-MM-YYYY"
    /\ col_types["a"] = "string"

\* C10: when the whole column, <NULL> markers and empty strings dropped,
\* parses under the year-first format, the column is date-time and its label
\* is YYYY/MM/DD if the column's minimum value contains '/', YYYY-MM-DD
\* otherwise.
C10_LabelByMinimum ==
    pc = "returned" =>
        \A c \in BatchColumns :
            (OnlyText(c) /\ Remaining(c) # <<>>
                 /\ WholeParsesYearFirst(Remaining(c))) =>
                /\ col_types[c] = "date-time"
                /\ c \in DOMAIN date_format_map
                /\ date_format_map[c] =
                       IF Contains(Smallest(Remaining(c)), "/")
                       THEN "YYYY/MM/DD" ELSE "YYYY-MM-DD"
                /\ (\A i \in 1..Len(Remaining(c)) : Contains(Remaining(c)[i], "/"))
                       => date_format_map[c] = "YYYY/MM/DD"
                /\ (\A i \in 1..Len(Remaining(c)) : ~Contains(Remaining(c)[i], "/"))
                       => date_format_map[c] = "YYYY-MM-DD"

C10_Witness ==
    /\ pc = "returned"
    /\ Len(samples) = 2
    /\ Cell("a", 1) = Str(<<"2", "0", "2", "2", "-", "0", "1", "-", "0", "2">>)
    /\ Cell("a", 2) = Str(<<"2", "0", "2", "1", "/", "1", "2", "/", "3", "0">>)
    /\ col_types["a"] = "date-time"
    /\ date_format_map["a"] = "YYYY/MM/DD"

====
